---- MODULE Spec2Model ----
(***************************************************************************)
(* The LangGraph router of agent_orchester.py: identifier ->               *)
(* {transformation | cancel}, transformation -> {execute | cancel},        *)
(* execute -> END, cancel -> END.  The two pydantic_ai agents are black    *)
(* boxes: every value of their declared output types is a possible result. *)
(***************************************************************************)
EXTENDS Integers, Sequences, FiniteSets, TLC

VARIABLES pc, steps, prompt, object_table, object_id, object_name,
          transformation, cancel_reason, user_output, match, output

vars == <<pc, steps, prompt, object_table, object_id, object_name,
          transformation, cancel_reason, user_output, match, output>>

(***************************************************************************)
(* Bounds of the model.                                                    *)
(***************************************************************************)
\* the agents' text answers carry up to MaxPad blanks on either side
MaxPad == 1
\* rotations returned by the extraction agent: -180.0, 0.0, ... in half turns
MaxHalfTurns == 2
\* zooms returned by the extraction agent: -0.5, 0.0, ... in steps of 0.5
MaxZoomK == 2

\* the calls of app.invoke a run can hold
Invocations == 1..2

(***************************************************************************)
(* Python values.  A key of the state that no node has written is absent;  *)
(* None and str are told apart by their type.  Floats are counted in       *)
(* tenths; the text of a str the code inspects is a sequence of            *)
(* characters.                                                             *)
(***************************************************************************)
Absent == [kind |-> "absent"]
None == [kind |-> "None"]
Str(s) == [kind |-> "str", value |-> s]
IsNull(v) == v.kind \in {"absent", "None"}

\* str(x) of an f-string field
PyStr(v) == IF v.kind = "None" THEN "None" ELSE v.value

\* str(float) for a float with one decimal, given in tenths
FloatStr(v) ==
  LET a == IF v < 0 THEN -v ELSE v
  IN (IF v < 0 THEN "-" ELSE "") \o ToString(a \div 10) \o "." \o ToString(a % 10)

Lower == <<"a","b","c","d","e","f","g","h","i","j","k","l","m",
           "n","o","p","q","r","s","t","u","v","w","x","y","z">>
UpperCase == <<"A","B","C","D","E","F","G","H","I","J","K","L","M",
               "N","O","P","Q","R","S","T","U","V","W","X","Y","Z">>
Whitespace == {" ", "\n", "\t"}

\* str.upper()
upper(s) ==
  [i \in 1..Len(s) |->
     IF \E k \in 1..26 : Lower[k] = s[i]
       THEN UpperCase[CHOOSE k \in 1..26 : Lower[k] = s[i]]
       ELSE s[i]]

\* str.strip()
RECURSIVE lstrip(_)
lstrip(s) == IF s # <<>> /\ Head(s) \in Whitespace THEN lstrip(Tail(s)) ELSE s
RECURSIVE rstrip(_)
rstrip(s) ==
  IF s # <<>> /\ s[Len(s)] \in Whitespace THEN rstrip(SubSeq(s, 1, Len(s) - 1)) ELSE s
strip(s) == rstrip(lstrip(s))

INVALID == <<"I","N","V","A","L","I","D">>

(***************************************************************************)
(* 0. Object catalog                                                       *)
(***************************************************************************)
\* variant: an entry whose ID was left blank
OBJECT_ID_TABLE_blank ==
  [left_gear |-> "2953382", right_gear |-> "4239423", main_shaft |-> "9923411",
   front_left_wheel |-> "1844231", front_right_wheel |-> "1844232",
   rear_left_wheel |-> "1844233", rear_right_wheel |-> "1844234",
   steering_column |-> "5539211", engine_block |-> "3421299",
   cooling_fan |-> ""]

OBJECT_ID_TABLE ==
  [left_gear |-> "2953382", right_gear |-> "4239423", main_shaft |-> "9923411",
   front_left_wheel |-> "1844231", front_right_wheel |-> "1844232",
   rear_left_wheel |-> "1844233", rear_right_wheel |-> "1844234",
   steering_column |-> "5539211", engine_block |-> "3421299",
   cooling_fan |-> "7712934"]

\* the inputs of app.invoke
Prompts == {"Rotate the main_shaft by 30 degrees on the x-axis.",
            "flip the main shaft by 30 degrees on the x-axis."}
Catalogs == {OBJECT_ID_TABLE, [main_shaft |-> "9923411"]}

(***************************************************************************)
(* 2. Agents: the values of their output types                             *)
(***************************************************************************)
IdStrings == {"", "MULTI", "multi", "9923411", "1844231", "0000000"}
NameStrings == {"", "MULTI", "main_shaft", "front_left_wheel", "widget"}
\* the entries of a catalog, as the answers that name one of them
CatalogMatches(tab) == {[object_id |-> tab[n], object_name |-> n] : n \in DOMAIN tab}
\* output_type=ObjectMatch
ObjectMatch ==
  [object_id : IdStrings, object_name : NameStrings] \cup CatalogMatches(OBJECT_ID_TABLE)

Rotations == {1800 * k : k \in -1..MaxHalfTurns}
Zooms == {5 * k : k \in -1..MaxZoomK}
\* class ModelTransformation(BaseModel)
ModelTransformation ==
  [kind : {"ModelTransformation"}, object_id : {"9923411", "0000000"},
   rotate_x : Rotations, rotate_y : Rotations, rotate_z : Rotations, zoom : Zooms]

Spaces(n) == [i \in 1..n |-> " "]
BaseTexts == {INVALID,
              <<"i","n","v","a","l","i","d">>,
              <<"I","n","v","a","l","i","d">>,
              <<"I","N"," ","V","A","L","I","D">>,
              <<"N","O">>,
              <<>>}
TextOutputs ==
  {Str(Spaces(a) \o b \o Spaces(c)) : a \in 0..MaxPad, c \in 0..MaxPad, b \in BaseTexts}
\* output_type=Union[ModelTransformation, str]
TransformOutputs == ModelTransformation \cup TextOutputs

(***************************************************************************)
(* 4. Nodes: the partial state each node returns                           *)
(***************************************************************************)
\* variant: the two failure reasons exchanged
node_identifier_swapped(m) ==
  IF m.object_id = ""
    THEN [object_id |-> None, object_name |-> None,
          cancel_reason |-> Str("ambiguous")]
  ELSE IF m.object_id = "MULTI"
    THEN [object_id |-> None, object_name |-> None,
          cancel_reason |-> Str("unknown_object")]
  ELSE [object_id |-> Str(m.object_id), object_name |-> Str(m.object_name),
        cancel_reason |-> None]

\* variant: the ambiguous answer is recognised by its object_name
node_identifier_by_name(m) ==
  IF m.object_id = ""
    THEN [object_id |-> None, object_name |-> None,
          cancel_reason |-> Str("unknown_object")]
  ELSE IF m.object_name = "MULTI"
    THEN [object_id |-> None, object_name |-> None,
          cancel_reason |-> Str("ambiguous")]
  ELSE [object_id |-> Str(m.object_id), object_name |-> Str(m.object_name),
        cancel_reason |-> None]

node_identifier(m) ==
  IF m.object_id = ""
    THEN [object_id |-> None, object_name |-> None,
          cancel_reason |-> Str("unknown_object")]
  ELSE IF m.object_id = "MULTI"
    THEN [object_id |-> None, object_name |-> None,
          cancel_reason |-> Str("ambiguous")]
  ELSE [object_id |-> Str(m.object_id), object_name |-> Str(m.object_name),
        cancel_reason |-> None]

\* variant: the rejected answer is kept as the transformation
node_transformation_keeps(out) ==
  IF out.kind = "str" /\ upper(strip(out.value)) = INVALID
    THEN [transformation |-> out, cancel_reason |-> Str("invalid_action")]
    ELSE [transformation |-> out, cancel_reason |-> None]

\* variant: the reason of a rejected extraction misspelt
node_transformation_misspelt(out) ==
  IF out.kind = "str" /\ upper(strip(out.value)) = INVALID
    THEN [transformation |-> None, cancel_reason |-> Str("invalid")]
    ELSE [transformation |-> out, cancel_reason |-> None]

node_transformation(out) ==
  IF out.kind = "str" /\ upper(strip(out.value)) = INVALID
    THEN [transformation |-> None, cancel_reason |-> Str("invalid_action")]
    ELSE [transformation |-> out, cancel_reason |-> None]

\* variant: the ID is read from the transformation, not from the state
node_execute_own_id(t, name, oid) ==
  IF t.kind = "ModelTransformation"
    THEN [raised |-> FALSE,
          user_output |-> Str(
            "Executing transformation on '" \o PyStr(name) \o "' (ID: "
            \o t.object_id \o "): rotate_x=" \o FloatStr(t.rotate_x)
            \o ", rotate_y=" \o FloatStr(t.rotate_y)
            \o ", rotate_z=" \o FloatStr(t.rotate_z)
            \o ", zoom=" \o FloatStr(t.zoom))]
    ELSE [raised |-> TRUE, user_output |-> Absent]

\* t.rotate_x of a value that is no ModelTransformation raises AttributeError
node_execute(t, name, oid) ==
  IF t.kind = "ModelTransformation"
    THEN [raised |-> FALSE,
          user_output |-> Str(
            "Executing transformation on '" \o PyStr(name) \o "' (ID: "
            \o PyStr(oid) \o "): rotate_x=" \o FloatStr(t.rotate_x)
            \o ", rotate_y=" \o FloatStr(t.rotate_y)
            \o ", rotate_z=" \o FloatStr(t.rotate_z)
            \o ", zoom=" \o FloatStr(t.zoom))]
    ELSE [raised |-> TRUE, user_output |-> Absent]

MsgUnknownObject == "This object does not exist. Please describe the object more clearly."
MsgAmbiguous == "Your request is ambiguous. Please clarify which object you mean."
MsgInvalidAction ==
  "The requested action cannot be represented by this system. "
  \o "Allowed fields are rotate_x, rotate_y, rotate_z, and zoom."
MsgFallback == "The request could not be completed."

\* variant: the reason of a rejected extraction misspelt
node_cancel_misspelt(r) ==
  IF r = Str("unknown_object") THEN [user_output |-> Str(MsgUnknownObject)]
  ELSE IF r = Str("ambiguous") THEN [user_output |-> Str(MsgAmbiguous)]
  ELSE IF r = Str("invalid") THEN [user_output |-> Str(MsgInvalidAction)]
  ELSE [user_output |-> Str(MsgFallback)]

\* variant: the prompt is cleared once it has been answered
node_cancel_resets(r) ==
  [prompt |-> Str("")] @@
  (IF r = Str("unknown_object") THEN [user_output |-> Str(MsgUnknownObject)]
   ELSE IF r = Str("ambiguous") THEN [user_output |-> Str(MsgAmbiguous)]
   ELSE IF r = Str("invalid_action") THEN [user_output |-> Str(MsgInvalidAction)]
   ELSE [user_output |-> Str(MsgFallback)])

node_cancel(r) ==
  IF r = Str("unknown_object") THEN [user_output |-> Str(MsgUnknownObject)]
  ELSE IF r = Str("ambiguous") THEN [user_output |-> Str(MsgAmbiguous)]
  ELSE IF r = Str("invalid_action") THEN [user_output |-> Str(MsgInvalidAction)]
  ELSE [user_output |-> Str(MsgFallback)]

(***************************************************************************)
(* 5. Graph: the conditional edges                                         *)
(***************************************************************************)
\* variant: the test of the edge inverted
after_identifier_inverted(r) == IF r = None THEN "cancel" ELSE "transformation"

\* variant: the edge without its test
after_identifier_always(r) == "transformation"

after_identifier(r) == IF r # None THEN "cancel" ELSE "transformation"

\* variant: a rejected extraction is tried again
after_transformation_retry(r) == IF r # None THEN "transformation" ELSE "execute"

\* variant: the test of the edge inverted
after_transformation_inverted(r) == IF r = None THEN "cancel" ELSE "execute"

after_transformation(r) == IF r # None THEN "cancel" ELSE "execute"

(***************************************************************************)
(* The run of the compiled graph.                                          *)
(***************************************************************************)
\* no call of app.invoke made yet; R is the set of calls that will be made
InitFor(R) ==
  /\ pc = [i \in Invocations |-> IF i \in R THEN "idle" ELSE "unused"]
  /\ steps = [i \in Invocations |-> <<>>]
  /\ prompt = [i \in Invocations |-> Absent]
  /\ object_table = [i \in Invocations |-> Absent]
  /\ object_id = [i \in Invocations |-> Absent]
  /\ object_name = [i \in Invocations |-> Absent]
  /\ transformation = [i \in Invocations |-> Absent]
  /\ cancel_reason = [i \in Invocations |-> Absent]
  /\ user_output = [i \in Invocations |-> Absent]
  /\ match = [i \in Invocations |-> Absent]
  /\ output = [i \in Invocations |-> Absent]

Init == InitFor({1})

\* app.invoke({"prompt": prompt, "object_table": table}); entry point identifier
invoke(i) ==
  /\ pc[i] = "idle"
  /\ \E p \in Prompts, tab \in Catalogs :
       /\ prompt' = [prompt EXCEPT ![i] = Str(p)]
       /\ object_table' = [object_table EXCEPT ![i] = tab]
  /\ pc' = [pc EXCEPT ![i] = "identifier"]
  /\ UNCHANGED <<steps, object_id, object_name, transformation, cancel_reason,
                 user_output, match, output>>

\* StateGraph(GraphState): a node's return value overwrites the keys it names
\* in the state of its own run and leaves the other keys as they are
update(f, i, upd, key) == IF key \in DOMAIN upd THEN [f EXCEPT ![i] = upd[key]] ELSE f

\* variant: one state record shared by every call of app.invoke
write_shared(i, upd) ==
  /\ prompt' = [j \in Invocations |-> update(prompt, i, upd, "prompt")[i]]
  /\ object_table' = [j \in Invocations |-> update(object_table, i, upd, "object_table")[i]]
  /\ object_id' = [j \in Invocations |-> update(object_id, i, upd, "object_id")[i]]
  /\ object_name' = [j \in Invocations |-> update(object_name, i, upd, "object_name")[i]]
  /\ transformation' = [j \in Invocations |-> update(transformation, i, upd, "transformation")[i]]
  /\ cancel_reason' = [j \in Invocations |-> update(cancel_reason, i, upd, "cancel_reason")[i]]
  /\ user_output' = [j \in Invocations |-> update(user_output, i, upd, "user_output")[i]]

write(i, upd) ==
  /\ prompt' = update(prompt, i, upd, "prompt")
  /\ object_table' = update(object_table, i, upd, "object_table")
  /\ object_id' = update(object_id, i, upd, "object_id")
  /\ object_name' = update(object_name, i, upd, "object_name")
  /\ transformation' = update(transformation, i, upd, "transformation")
  /\ cancel_reason' = update(cancel_reason, i, upd, "cancel_reason")
  /\ user_output' = update(user_output, i, upd, "user_output")

\* node "identifier" and its conditional edge, the agent answering from M
identifierOn(i, M) ==
  /\ pc[i] = "identifier"
  /\ \E m \in M :
       LET upd == node_identifier(m)
       IN /\ match' = [match EXCEPT ![i] = m]
          /\ write(i, upd)
          /\ pc' = [pc EXCEPT ![i] = after_identifier(cancel_reason'[i])]
  /\ steps' = [steps EXCEPT ![i] = Append(@, "identifier")]
  /\ UNCHANGED output

identifier(i) == identifierOn(i, ObjectMatch)

\* node "transformation" and its conditional edge, the agent answering from T
transformationOn(i, T) ==
  /\ pc[i] = "transformation"
  /\ \E out \in T :
       LET upd == node_transformation(out)
       IN /\ output' = [output EXCEPT ![i] = out]
          /\ write(i, upd)
          /\ pc' = [pc EXCEPT ![i] = after_transformation(cancel_reason'[i])]
  /\ steps' = [steps EXCEPT ![i] = Append(@, "transformation")]
  /\ UNCHANGED match

transformationStep(i) == transformationOn(i, TransformOutputs)

\* node "execute" and its edge to END; an exception ends the run
execute(i) ==
  /\ pc[i] = "execute"
  /\ LET upd == node_execute(transformation[i], object_name[i], object_id[i])
     IN IF upd.raised
          THEN /\ pc' = [pc EXCEPT ![i] = "raised"]
               /\ UNCHANGED <<prompt, object_table, object_id, object_name,
                              transformation, cancel_reason, user_output>>
          ELSE /\ pc' = [pc EXCEPT ![i] = "END"]
               /\ write(i, upd)
  /\ steps' = [steps EXCEPT ![i] = Append(@, "execute")]
  /\ UNCHANGED <<match, output>>

\* node "cancel" and its edge to END
cancel(i) ==
  /\ pc[i] = "cancel"
  /\ write(i, node_cancel(cancel_reason[i]))
  /\ pc' = [pc EXCEPT ![i] = "END"]
  /\ steps' = [steps EXCEPT ![i] = Append(@, "cancel")]
  /\ UNCHANGED <<match, output>>

Next ==
  \/ \E i \in Invocations : invoke(i)
  \/ \E i \in Invocations : identifier(i)
  \/ \E i \in Invocations : transformationStep(i)
  \/ \E i \in Invocations : execute(i)
  \/ \E i \in Invocations : cancel(i)

Spec == Init /\ [][Next]_vars

\* every node of a started run is eventually run: invoke blocks until the graph ends
FairSpec == Spec /\ WF_vars(Next)

(***************************************************************************)
(* Two calls of app.invoke whose nodes interleave (two threads over the    *)
(* one compiled app), the agents answering from a few of their values.     *)
(***************************************************************************)
PairMatches ==
  {[object_id |-> "", object_name |-> ""],
   [object_id |-> "MULTI", object_name |-> "MULTI"],
   [object_id |-> "9923411", object_name |-> "main_shaft"],
   [object_id |-> "0000000", object_name |-> "widget"]}
PairOutputs ==
  {t \in ModelTransformation :
     t.rotate_x \in {0, 1800} /\ t.rotate_y = 0 /\ t.rotate_z = 0 /\ t.zoom = 5}
  \cup {Str(INVALID), Str(<<"N","O">>)}

pairIdentifier(i) == identifierOn(i, PairMatches)
pairTransformation(i) == transformationOn(i, PairOutputs)

NextPair ==
  \/ \E i \in Invocations : invoke(i)
  \/ \E i \in Invocations : pairIdentifier(i)
  \/ \E i \in Invocations : pairTransformation(i)
  \/ \E i \in Invocations : execute(i)
  \/ \E i \in Invocations : cancel(i)

SpecPair == InitFor(Invocations) /\ [][NextPair]_vars

(***************************************************************************)
(* Properties of the router.                                               *)
(***************************************************************************)
Started == {i \in Invocations : pc[i] \notin {"unused", "idle"}}
Ran(i, n) == \E k \in 1..Len(steps[i]) : steps[i][k] = n
Last(s) == s[Len(s)]
Ended(i) == pc[i] \in {"END", "raised"}
IdentifierJustRan(i) == steps[i] = <<"identifier">>
TransformationJustRan(i) == steps[i] = <<"identifier", "transformation">>

\* C1: right after node_identifier, an empty object_id gives cancel_reason
\* 'unknown_object' and next step cancel, object_id 'MULTI' gives 'ambiguous'
\* and cancel, and every other result leaves cancel_reason None, stores the
\* returned id and name and goes on to transformation.
C1_IdentifierBranches ==
  \A i \in Invocations :
    IdentifierJustRan(i) =>
      /\ match[i].object_id = "" =>
           cancel_reason[i] = Str("unknown_object") /\ pc[i] = "cancel"
      /\ match[i].object_id = "MULTI" =>
           cancel_reason[i] = Str("ambiguous") /\ pc[i] = "cancel"
      /\ match[i].object_id \notin {"", "MULTI"} =>
           /\ cancel_reason[i] = None
           /\ object_id[i] = Str(match[i].object_id)
           /\ object_name[i] = Str(match[i].object_name)
           /\ pc[i] = "transformation"

C1_Witness ==
  \E i \in Invocations :
    /\ IdentifierJustRan(i)
    /\ match[i].object_id = "multi"
    /\ pc[i] = "transformation"

\* C2: right after node_transformation, a result that is not a
\* ModelTransformation record gives cancel_reason 'invalid_action', no
\* transformation and next step cancel; a record is stored, with cancel_reason
\* None and next step execute.
C2_RejectionByType ==
  \A i \in Invocations :
    TransformationJustRan(i) =>
      IF output[i].kind # "ModelTransformation"
        THEN /\ cancel_reason[i] = Str("invalid_action")
             /\ transformation[i] = None
             /\ pc[i] = "cancel"
        ELSE /\ transformation[i] = output[i]
             /\ cancel_reason[i] = None
             /\ pc[i] = "execute"

\* C3: cancel_reason and transformation are never both non-null.
C3_NotBoth ==
  \A i \in Invocations : IsNull(cancel_reason[i]) \/ IsNull(transformation[i])

C3_Witness ==
  \E i \in Invocations :
    /\ pc[i] = "END"
    /\ ~IsNull(transformation[i])
    /\ cancel_reason[i] = None

\* C4: when node_execute is about to run, object_id and object_name are
\* non-null, the transformation is a ModelTransformation record and
\* cancel_reason is None.
C4_ExecuteInput ==
  \A i \in Invocations :
    pc[i] = "execute" =>
      /\ ~IsNull(object_id[i])
      /\ ~IsNull(object_name[i])
      /\ transformation[i] \in ModelTransformation
      /\ cancel_reason[i] = None

\* C5: a run whose identification gave 'unknown_object' or 'ambiguous' never
\* runs node_transformation nor calls the extraction agent; it goes from
\* identifier to cancel and ends.
C5_NoExtractionAfterFailedIdentification ==
  \A i \in Invocations :
    (/\ Ran(i, "identifier")
     /\ match[i].object_id \in {"", "MULTI"}) =>
      /\ cancel_reason[i] \in {Str("unknown_object"), Str("ambiguous")}
      /\ ~Ran(i, "transformation")
      /\ output[i] = Absent
      /\ \/ pc[i] = "cancel" /\ steps[i] = <<"identifier">>
         \/ pc[i] = "END" /\ steps[i] = <<"identifier", "cancel">>

C5_Witness ==
  \E i \in Invocations :
    /\ pc[i] = "END"
    /\ cancel_reason[i] = Str("ambiguous")
    /\ steps[i] = <<"identifier", "cancel">>

\* C6: no run ends in an exception: a run that has stopped is at END with
\* user_output a single string, whatever the two agents returned.
C6_EndsWithOutput ==
  \A i \in Invocations :
    /\ pc[i] # "raised"
    /\ Ended(i) => (pc[i] = "END" /\ user_output[i].kind = "str")

\* C7: a cancelled run ends with the fixed message of its reason: the
\* 'unknown_object' message after an empty object_id, the 'ambiguous' message
\* after 'MULTI', the 'invalid_action' message after a rejected extraction;
\* the three messages differ from each other and from every confirmation.
CancelMessages == {MsgUnknownObject, MsgAmbiguous, MsgInvalidAction}

C7_CancelMessage ==
  /\ Cardinality(CancelMessages) = 3
  /\ \A i \in Invocations :
       pc[i] = "END" =>
         IF Last(steps[i]) = "cancel"
           THEN /\ cancel_reason[i] = Str("unknown_object") <=> match[i].object_id = ""
                /\ cancel_reason[i] = Str("ambiguous") <=> match[i].object_id = "MULTI"
                /\ cancel_reason[i] = Str("invalid_action") <=> Ran(i, "transformation")
                /\ match[i].object_id = "" => user_output[i] = Str(MsgUnknownObject)
                /\ match[i].object_id = "MULTI" => user_output[i] = Str(MsgAmbiguous)
                /\ Ran(i, "transformation") => user_output[i] = Str(MsgInvalidAction)
           ELSE user_output[i].value \notin CancelMessages

C7_Witness ==
  \E i \in Invocations :
    /\ pc[i] = "END"
    /\ steps[i] = <<"identifier", "transformation", "cancel">>
    /\ user_output[i] = Str(MsgInvalidAction)

\* C8: after an identification that leaves cancel_reason None, the stored
\* object_id and object_name are non-empty and are an entry of the catalog
\* passed as object_table.
InCatalog(tab, name, id) == name \in DOMAIN tab /\ tab[name] = id

C8_ResolvedObjectInCatalog ==
  \A i \in Invocations :
    (Ran(i, "identifier") /\ cancel_reason[i] = None) =>
      /\ object_id[i].kind = "str" /\ object_id[i].value # ""
      /\ object_name[i].kind = "str" /\ object_name[i].value # ""
      /\ InCatalog(object_table[i], object_name[i].value, object_id[i].value)

\* C9: the nodes run in order and at most once: the steps of a run are a
\* prefix of identifier -> cancel, identifier -> transformation -> cancel or
\* identifier -> transformation -> execute, and the run has ended exactly when
\* one of the three is complete.
Paths == {<<"identifier", "cancel">>,
          <<"identifier", "transformation", "cancel">>,
          <<"identifier", "transformation", "execute">>}
IsPrefix(s, t) == Len(s) <= Len(t) /\ s = SubSeq(t, 1, Len(s))

C9_StepOrder ==
  \A i \in Invocations :
    /\ \E path \in Paths : IsPrefix(steps[i], path)
    /\ Ended(i) <=> steps[i] \in Paths
    /\ \A n \in {"identifier", "transformation", "execute", "cancel"} :
         Cardinality({k \in 1..Len(steps[i]) : steps[i][k] = n}) <= 1

C9_Witness ==
  \E i \in Invocations :
    pc[i] = "END" /\ steps[i] = <<"identifier", "transformation", "execute">>

\* C10: a field of the state that holds a non-null value keeps that value in
\* every later step.
Keeps(f, i) == ~IsNull(f[i]) => f'[i] = f[i]

C10_Additive ==
  [][\A i \in Invocations :
       /\ Keeps(object_id, i)
       /\ Keeps(object_name, i)
       /\ Keeps(transformation, i)
       /\ Keeps(cancel_reason, i)
       /\ Keeps(user_output, i)]_vars

C10_Witness ==
  \E i \in Invocations :
    /\ pc[i] = "END"
    /\ ~IsNull(object_id[i])
    /\ cancel_reason[i] = Str("invalid_action")
    /\ ~IsNull(user_output[i])

\* C11: two interleaved calls do not interact: a step of one call leaves the
\* state of the other as it is, and a call that has ended has run the steps
\* and holds the object, transformation, cancel_reason and user_output that the
\* same agent answers give a call running by itself.
View(i) ==
  [pc |-> pc[i], steps |-> steps[i], object_id |-> object_id[i],
   object_name |-> object_name[i], transformation |-> transformation[i],
   cancel_reason |-> cancel_reason[i], user_output |-> user_output[i]]

InputOf(i) == <<prompt[i], object_table[i]>>

Cancelled(path, a, t, r) ==
  [pc |-> "END", steps |-> Append(path, "cancel"), object_id |-> a.object_id,
   object_name |-> a.object_name, transformation |-> t, cancel_reason |-> r,
   user_output |-> node_cancel(r).user_output]

\* the end of a run by itself whose agents answer m and out
RunAlone(m, out) ==
  LET a == node_identifier(m)
  IN IF after_identifier(a.cancel_reason) = "cancel"
       THEN Cancelled(<<"identifier">>, a, Absent, a.cancel_reason)
       ELSE LET b == node_transformation(out)
            IN IF after_transformation(b.cancel_reason) = "cancel"
                 THEN Cancelled(<<"identifier", "transformation">>, a,
                                b.transformation, b.cancel_reason)
                 ELSE LET e == node_execute(b.transformation, a.object_name, a.object_id)
                      IN [pc |-> IF e.raised THEN "raised" ELSE "END",
                          steps |-> <<"identifier", "transformation", "execute">>,
                          object_id |-> a.object_id, object_name |-> a.object_name,
                          transformation |-> b.transformation,
                          cancel_reason |-> b.cancel_reason,
                          user_output |-> e.user_output]

C11_AsAlone == \A i \in Invocations : Ended(i) => View(i) = RunAlone(match[i], output[i])

C11_Independent ==
  /\ []C11_AsAlone
  /\ [][\A i, j \in Invocations :
          (i # j /\ pc'[i] # pc[i]) =>
            /\ View(j)' = View(j)
            /\ InputOf(j)' = InputOf(j)
            /\ match'[j] = match[j]
            /\ output'[j] = output[j]]_vars

C11_Witness ==
  /\ pc[1] = "END" /\ steps[1] = <<"identifier", "transformation", "execute">>
  /\ pc[2] = "END" /\ steps[2] = <<"identifier", "cancel">>
  /\ prompt[1] # prompt[2]

\* C12: no step changes the prompt or the object catalog of a started request.
C12_InputsKept ==
  [][\A i \in Started : prompt'[i] = prompt[i] /\ object_table'[i] = object_table[i]]_vars

C12_Witness ==
  \E i \in Invocations :
    /\ pc[i] = "END"
    /\ Ran(i, "cancel")
    /\ prompt[i] = Str("flip the main shaft by 30 degrees on the x-axis.")
    /\ object_table[i] = OBJECT_ID_TABLE

\* C13: whenever node_cancel runs, cancel_reason is 'unknown_object',
\* 'ambiguous' or 'invalid_action', so the fallback message is never the output.
KnownReasons == {Str("unknown_object"), Str("ambiguous"), Str("invalid_action")}

C13_FallbackUnreachable ==
  \A i \in Invocations :
    /\ (pc[i] = "cancel" \/ Ran(i, "cancel")) => cancel_reason[i] \in KnownReasons
    /\ user_output[i] # Str(MsgFallback)

C13_Witness ==
  \E i \in Invocations :
    /\ pc[i] = "cancel"
    /\ cancel_reason[i] = Str("invalid_action")

\* C14 as claimed: every request that has ended called the reasoning service
\* twice.
ServiceCalls(i) ==
  Cardinality({k \in 1..Len(steps[i]) : steps[i][k] \in {"identifier", "transformation"}})

C14_AlwaysTwoCalls == \A i \in Invocations : Ended(i) => ServiceCalls(i) = 2

\* C14 amended: a request calls the service once for identification, and once
\* more for extraction exactly when identification resolved an object; never
\* more than twice.
C14_CallsByBranch ==
  \A i \in Invocations :
    /\ ServiceCalls(i) <= 2
    /\ Ended(i) =>
         ServiceCalls(i) = IF match[i].object_id \in {"", "MULTI"} THEN 1 ELSE 2

C14_Witness ==
  \E i \in Invocations :
    /\ pc[i] = "END"
    /\ match[i].object_id = ""
    /\ ServiceCalls(i) = 1

\* C15: execute and cancel write user_output only, and two confirmations of
\* the same object_name, object_id, rotate_x, rotate_y, rotate_z and zoom are
\* the same string, whatever the prompt, the catalog or the rest of the state.
Executed(i) == pc[i] = "END" /\ Last(steps[i]) = "execute"
Formatted(i) ==
  <<object_name[i], object_id[i], transformation[i].rotate_x, transformation[i].rotate_y,
    transformation[i].rotate_z, transformation[i].zoom>>

C15_SameValuesSameString ==
  \A i, j \in Invocations :
    (Executed(i) /\ Executed(j) /\ Formatted(i) = Formatted(j)) =>
      user_output[i] = user_output[j]

C15_PureFormatting ==
  /\ []C15_SameValuesSameString
  /\ [][\A i \in Invocations :
          (pc[i] \in {"execute", "cancel"} /\ pc'[i] # pc[i]) =>
            /\ object_id'[i] = object_id[i]
            /\ object_name'[i] = object_name[i]
            /\ transformation'[i] = transformation[i]
            /\ cancel_reason'[i] = cancel_reason[i]
            /\ InputOf(i)' = InputOf(i)]_vars

C15_Witness ==
  /\ Executed(1) /\ Executed(2)
  /\ Formatted(1) = Formatted(2)
  /\ prompt[1] # prompt[2]
  /\ object_table[1] # object_table[2]
  /\ transformation[1].object_id # transformation[2].object_id
  /\ user_output[1] = user_output[2]

\* C16: a transformation record that reaches execute has its three rotations
\* in [0, 360) and a zoom above zero.
C16_WithinBounds ==
  \A i \in Invocations :
    (pc[i] = "execute" /\ transformation[i].kind = "ModelTransformation") =>
      /\ \A v \in {transformation[i].rotate_x, transformation[i].rotate_y,
                   transformation[i].rotate_z} : 0 <= v /\ v < 3600
      /\ transformation[i].zoom > 0

\* C17: no entry of OBJECT_ID_TABLE has the ID '' or 'MULTI', its IDs are
\* unique, and an identification that answers with an entry of it goes on to
\* transformation with cancel_reason None.
CatalogIds == {OBJECT_ID_TABLE[n] : n \in DOMAIN OBJECT_ID_TABLE}

C17_SentinelsApart ==
  /\ CatalogIds \cap {"", "MULTI"} = {}
  /\ Cardinality(CatalogIds) = Cardinality(DOMAIN OBJECT_ID_TABLE)
  /\ \A i \in Invocations :
       (IdentifierJustRan(i) /\ match[i] \in CatalogMatches(OBJECT_ID_TABLE)) =>
         /\ cancel_reason[i] = None
         /\ pc[i] = "transformation"
         /\ object_id[i] = Str(match[i].object_id)
         /\ object_name[i] = Str(match[i].object_name)

C17_Witness ==
  \E i \in Invocations :
    /\ IdentifierJustRan(i)
    /\ match[i] = [object_id |-> "7712934", object_name |-> "cooling_fan"]
    /\ pc[i] = "transformation"

\* C18: a run that has ended has run exactly one of execute and cancel, once
\* and as its last step: execute exactly when cancel_reason is null and the
\* transformation is not, cancel exactly when cancel_reason is not null; a
\* run that has not ended has run neither.
Count(i, n) == Cardinality({k \in 1..Len(steps[i]) : steps[i][k] = n})

C18_OneFinalStep ==
  \A i \in Invocations :
    IF Ended(i)
      THEN /\ Count(i, "execute") + Count(i, "cancel") = 1
           /\ Last(steps[i]) \in {"execute", "cancel"}
           /\ Ran(i, "execute") <=>
                (IsNull(cancel_reason[i]) /\ ~IsNull(transformation[i]))
           /\ Ran(i, "cancel") <=> ~IsNull(cancel_reason[i])
      ELSE ~Ran(i, "execute") /\ ~Ran(i, "cancel")

C18_Witness ==
  \E i \in Invocations :
    /\ pc[i] = "END"
    /\ steps[i] = <<"identifier", "transformation", "cancel">>
    /\ IsNull(transformation[i])

\* C19: once identifier has run, object_id and object_name are both null or
\* both non-null, and null exactly when cancel_reason is 'unknown_object' or
\* 'ambiguous'; 'invalid_action' comes with a resolved object only; the branch
\* taken follows the returned object_id alone, whatever the object_name.
C19_ObjectPair ==
  \A i \in Invocations :
    Ran(i, "identifier") =>
      /\ IsNull(object_id[i]) <=> IsNull(object_name[i])
      /\ IsNull(object_id[i]) <=>
           cancel_reason[i] \in {Str("unknown_object"), Str("ambiguous")}
      /\ cancel_reason[i] = Str("invalid_action") => ~IsNull(object_id[i])
      /\ IsNull(object_id[i]) <=> match[i].object_id \in {"", "MULTI"}
      /\ IdentifierJustRan(i) =>
           (pc[i] = "cancel" <=> match[i].object_id \in {"", "MULTI"})

C19_Witness ==
  \E i \in Invocations :
    /\ pc[i] = "END"
    /\ match[i] = [object_id |-> "9923411", object_name |-> "MULTI"]
    /\ cancel_reason[i] = Str("invalid_action")
    /\ object_name[i] = Str("MULTI")

====
